---- MODULE Spec2Model ----
(***************************************************************************)
(* Model of the two spreadsheet-cleaning pipelines of the repository:      *)
(*   main.py    is_similar_name, read_file_safe, remove_duplicates         *)
(*   filter.py  apply_filter_condition, filter_excel_data                  *)
(*                                                                         *)
(* A cell of a table is a record [tag, n, s]: tag "null" is pandas' NaN,   *)
(* tag "str" carries the characters s (a sequence of one-character         *)
(* strings), the numeric and date tags carry n.  Unused fields are 0 and   *)
(* <<>> so that any two cells can be compared.                             *)
(***************************************************************************)
EXTENDS Integers, Sequences, FiniteSets, TLC

VARIABLES
    \* is_similar_name called on its own
    name1, name2, threshold, result, mpc,
    \* remove_duplicates
    files, similarity_threshold, idx, chk, removed_names, matches_found,
    removed_rows, df_responses_filtered, written, dpc,
    \* filter_excel_data
    input_file, filter_groups, df, pos, saved, raised, fpc

mvars == <<name1, name2, threshold, result, mpc>>
dvars == <<files, similarity_threshold, idx, chk, removed_names, matches_found,
           removed_rows, df_responses_filtered, written, dpc>>
fvars == <<input_file, filter_groups, df, pos, saved, raised, fpc>>
vars == <<mvars, dvars, fvars>>

----------------------------------------------------------------------------
(* Cells and strings *)

NullCell == [tag |-> "null", n |-> 0, s |-> <<>>]
StrCell(s) == [tag |-> "str", n |-> 0, s |-> s]

\* pd.isna(x)
IsNa(c) == c.tag = "null"

\* Sequences over S of length at most n
SeqsUpTo(S, n) == UNION {[1..k -> S] : k \in 0..n}

Whitespace == {" "}

\* str.lower() on one character
LowerChar(c) == CASE c = "B" -> "b" [] OTHER -> c

\* str.lower()
Lower(s) == [k \in 1..Len(s) |-> LowerChar(s[k])]

RECURSIVE LStrip(_)
LStrip(s) == IF s # <<>> /\ Head(s) \in Whitespace THEN LStrip(Tail(s)) ELSE s

RECURSIVE RStrip(_)
RStrip(s) ==
    IF s # <<>> /\ s[Len(s)] \in Whitespace
    THEN RStrip(SubSeq(s, 1, Len(s) - 1))
    ELSE s

\* str.strip()
Strip(s) == RStrip(LStrip(s))

\* str.split(): the maximal runs of non-whitespace characters, in order.
\* cur is the run being read, acc the runs already closed.
RECURSIVE SplitFrom(_, _, _)
SplitFrom(s, cur, acc) ==
    IF s = <<>>
    THEN IF cur = <<>> THEN acc ELSE Append(acc, cur)
    ELSE IF Head(s) \in Whitespace
         THEN SplitFrom(Tail(s), <<>>, IF cur = <<>> THEN acc ELSE Append(acc, cur))
         ELSE SplitFrom(Tail(s), Append(cur, Head(s)), acc)

Split(s) == SplitFrom(s, <<>>, <<>>)

\* set(name.split())
Parts(s) == {Split(s)[k] : k \in 1..Len(Split(s))}

Max2(a, b) == IF a >= b THEN a ELSE b

Abs(x) == IF x < 0 THEN -x ELSE x

\* Length of a longest common subsequence of s and t
RECURSIVE Lcs(_, _)
Lcs(s, t) ==
    IF s = <<>> \/ t = <<>> THEN 0
    ELSE IF Head(s) = Head(t) THEN 1 + Lcs(Tail(s), Tail(t))
    ELSE Max2(Lcs(Tail(s), t), Lcs(s, Tail(t)))

\* fuzz.ratio(s, t): round(100 * 2*M / (|s| + |t|)), M the matched characters,
\* as the Levenshtein-backed build of the library computes it; 0 for an
\* empty string.
Ratio(s, t) ==
    IF s = <<>> \/ t = <<>> THEN 0
    ELSE (400 * Lcs(s, t) + (Len(s) + Len(t))) \div (2 * (Len(s) + Len(t)))

\* max(iterable, default=0) and min(iterable) over a set of scores
MaxOf(S) == IF S = {} THEN 0 ELSE CHOOSE x \in S : \A y \in S : y <= x
MinOf(S) == CHOOSE x \in S : \A y \in S : x <= y

\* best_match for one part of name1 (main.py line 43)
BestMatch(part1, parts2) == MaxOf({Ratio(part1, part2) : part2 \in parts2})

\* The size guard of is_similar_name (main.py line 36)
SizeGuardMutant(parts1, parts2) == FALSE
SizeGuard(parts1, parts2) == Abs(Cardinality(parts1) - Cardinality(parts2)) > 1

\* The final test of is_similar_name (main.py line 47): best_matches holds one
\* score per part of name1; its minimum depends only on the set of scores.
AllGoodMutant(parts1, parts2, t) ==
    \A part1 \in parts1 : BestMatch(part1, parts2) >= t
AllGood(parts1, parts2, t) ==
    LET best_matches == {BestMatch(part1, parts2) : part1 \in parts1}
    IN  parts1 # {} /\ MinOf(best_matches) >= t

is_similar_name(n1, n2, t) ==
    IF IsNa(n1) \/ IsNa(n2) THEN FALSE
    ELSE LET parts1 == Parts(Strip(Lower(n1.s)))
             parts2 == Parts(Strip(Lower(n2.s)))
         IN  IF SizeGuard(parts1, parts2) THEN FALSE
             ELSE AllGood(parts1, parts2, t)

----------------------------------------------------------------------------
(* Bounds and input sets *)

MaxNameLen == 4

NameChars == {"a", "B", " "}

Names == {NullCell} \cup {StrCell(s) : s \in SeqsUpTo(NameChars, MaxNameLen)}

\* similarity thresholds tried: the two defaults of the code and the ends
Thresholds == {0, 50, 75, 80, 100}

----------------------------------------------------------------------------
(* Variables of a pipeline that is not running *)

IdleMatcher ==
    /\ name1 = NullCell /\ name2 = NullCell /\ threshold = 0
    /\ result = FALSE /\ mpc = "idle"

IdleDedup ==
    /\ files = <<>> /\ similarity_threshold = 0 /\ idx = 0 /\ chk = 0
    /\ removed_names = <<>> /\ matches_found = <<>> /\ removed_rows = <<>>
    /\ df_responses_filtered = <<>> /\ written = {} /\ dpc = "idle"

----------------------------------------------------------------------------
(* filter.py: cells, columns and apply_filter_condition.                   *)
(* The table has the one data column "A".  A DataFrame is [dtype, rows]:   *)
(* dtype is the dtype of column "A", rows the sequence of [index, cell],   *)
(* index being the row label given by read_excel.  pandas 2 is modelled.   *)

IntCell(n) == [tag |-> "int", n |-> n, s |-> <<>>]
FloatCell(n) == [tag |-> "float", n |-> n, s |-> <<>>]
DateCell(n) == [tag |-> "date", n |-> n, s |-> <<>>]
NatCell == [tag |-> "nat", n |-> 0, s |-> <<>>]

IsNumber(c) == c.tag \in {"int", "float"}

Columns == {"A"}

DigitChars == <<"0", "1", "2", "3", "4", "5", "6", "7", "8", "9">>

\* The characters of the model in code-point order
Alphabet == <<" ", "-", ".", "/">> \o DigitChars \o <<"B", "N", "T", "a", "b", "n", "x">>

CharRank(ch) == CHOOSE k \in 1..Len(Alphabet) : Alphabet[k] = ch

TwoDigits(n) == <<DigitChars[(n \div 10) + 1], DigitChars[(n % 10) + 1]>>

\* str(n) for 0 <= n <= 99
IntStr(n) == IF n < 10 THEN <<DigitChars[n + 1]>> ELSE TwoDigits(n)

\* str(x) of a cell, as Series.astype(str) renders it: NaN is "nan", a float
\* keeps its ".0", a timestamp at midnight is its ISO date (the dates of the
\* model are the days of January 1900, which "%d" parses to)
PyStr(c) ==
    CASE c.tag = "str" -> c.s
      [] c.tag = "int" -> IntStr(c.n)
      [] c.tag = "float" -> IntStr(c.n) \o <<".", "0">>
      [] c.tag = "null" -> <<"n", "a", "n">>
      [] c.tag = "nat" -> <<"N", "a", "T">>
      [] OTHER -> <<"1", "9", "0", "0", "-", "0", "1", "-">> \o TwoDigits(c.n)

IsDigit(ch) == \E d \in 1..10 : DigitChars[d] = ch

DigitVal(ch) == (CHOOSE d \in 1..10 : DigitChars[d] = ch) - 1

\* strptime(s, "%d"): the day of the month, 0 when s does not match
Strptime(s) ==
    IF Len(s) = 1 /\ IsDigit(s[1]) /\ DigitVal(s[1]) >= 1 THEN DigitVal(s[1])
    ELSE IF Len(s) = 2 /\ s[1] = " " /\ IsDigit(s[2]) /\ DigitVal(s[2]) >= 1
         THEN DigitVal(s[2])
    ELSE IF Len(s) = 2 /\ IsDigit(s[1]) /\ IsDigit(s[2])
            /\ 10 * DigitVal(s[1]) + DigitVal(s[2]) \in 1..31
         THEN 10 * DigitVal(s[1]) + DigitVal(s[2])
    ELSE 0

\* One cell under pd.to_datetime(column, format="%d", errors='coerce'): a
\* missing value is NaT, anything else is parsed from its text (a number from
\* the text of its integer value), NaT when the text does not match
ToDatetimeCell(c) ==
    CASE c.tag \in {"date", "nat"} -> c
      [] c.tag = "null" -> NatCell
      [] OTHER ->
            LET d == Strptime(IF c.tag = "str" THEN c.s ELSE IntStr(c.n))
            IN  IF d = 0 THEN NatCell ELSE DateCell(d)

MapCells(d, Op(_), dtype) ==
    [dtype |-> dtype,
     rows |-> [k \in 1..Len(d.rows) |->
                  [index |-> d.rows[k].index, cell |-> Op(d.rows[k].cell)]]]

StrOfCell(c) == StrCell(PyStr(c))

\* df[column] = df[column].astype(str)   (filter.py line 59)
AsTypeStr(d) == MapCells(d, StrOfCell, "object")

\* df[column] = pd.to_datetime(df[column], format=..., errors='coerce')
\* unless the column is datetime already   (filter.py lines 41-42)
ToDatetime(d) ==
    IF d.dtype = "datetime64" THEN d ELSE MapCells(d, ToDatetimeCell, "datetime64")

\* sub in s
Contains(s, sub) ==
    \E k \in 0..(Len(s) - Len(sub)) : SubSeq(s, k + 1, k + Len(sub)) = sub

\* s.startswith(prefix)
StartsWith(s, prefix) ==
    Len(prefix) <= Len(s) /\ SubSeq(s, 1, Len(prefix)) = prefix

\* s < t for str
RECURSIVE StrLess(_, _)
StrLess(s, t) ==
    IF t = <<>> THEN FALSE
    ELSE IF s = <<>> THEN TRUE
    ELSE IF Head(s) = Head(t) THEN StrLess(Tail(s), Tail(t))
    ELSE CharRank(Head(s)) < CharRank(Head(t))

\* x == v on one cell: numbers by value, strings by content, a missing value
\* and a value of another type are unequal
CellEq(c, v) ==
    \/ IsNumber(c) /\ IsNumber(v) /\ c.n = v.n
    \/ c.tag = "str" /\ v.tag = "str" /\ c.s = v.s

\* x in values on one cell (Series.isin: NaN is found in a list holding NaN)
CellIn(c, items) ==
    \E k \in 1..Len(items) :
        CellEq(c, items[k]) \/ (c.tag = "null" /\ items[k].tag = "null")

\* x < v on one cell of comparable type; a missing value compares False
CellLess(c, v) ==
    CASE c.tag \in {"null", "nat"} -> FALSE
      [] IsNumber(c) -> c.n < v.n
      [] OTHER -> StrLess(c.s, v.s)

CellGreater(c, v) ==
    CASE c.tag \in {"null", "nat"} -> FALSE
      [] IsNumber(c) -> c.n > v.n
      [] OTHER -> StrLess(v.s, c.s)

\* df[column] > value raises TypeError: a numeric or datetime column against
\* a value of another type as a whole, an object column on the first cell
\* that is neither missing nor of the type of the value
OrderingRaises(d, v) ==
    IF d.dtype = "object"
    THEN \E k \in 1..Len(d.rows) :
            LET c == d.rows[k].cell
            IN  c.tag # "null" /\ (IsNumber(c) # IsNumber(v))
    ELSE IF d.dtype = "datetime64" THEN TRUE
    ELSE ~IsNumber(v)

Mask(d, P(_)) == [k \in 1..Len(d.rows) |-> P(d.rows[k].cell)]

\* pd.Series(True, index=df.index)   (filter.py line 74)
AllTrue(c) == TRUE

NoError == "None"

Outcome(d, mask, err) == [df |-> d, mask |-> mask, err |-> err]

\* The date branch (filter.py lines 39-55)
ApplyDate(d, condition) ==
    LET d1 == ToDatetime(d)
        v == condition.value
        day == IF v.tag = "str" THEN Strptime(v.s) ELSE v.n
        Eq(c) == c.tag = "date" /\ c.n = day
        Gt(c) == c.tag = "date" /\ c.n > day
        Lt(c) == c.tag = "date" /\ c.n < day
    IN  IF v.tag = "str" /\ day = 0 THEN Outcome(d1, <<>>, "ValueError")
        ELSE IF v.tag \notin {"str", "date"} THEN Outcome(d1, <<>>, "AttributeError")
        ELSE CASE condition.condition = "date_equals" -> Outcome(d1, Mask(d1, Eq), NoError)
               [] condition.condition = "date_greater" -> Outcome(d1, Mask(d1, Gt), NoError)
               [] condition.condition = "date_less" -> Outcome(d1, Mask(d1, Lt), NoError)
               [] OTHER -> Outcome(d1, Mask(d1, AllTrue), NoError)

\* The other branch (filter.py lines 57-72)
ApplyPlain(d, condition) ==
    LET kind == condition.condition
        v == condition.value
        d1 == IF kind \in {"contains", "starts_with"} THEN AsTypeStr(d) ELSE d
        text == PyStr(v)
        Eq(c) == CellEq(c, v)
        Has(c) == c.tag = "str" /\ Contains(c.s, text)
        Starts(c) == c.tag = "str" /\ StartsWith(c.s, text)
        In(c) == CellIn(c, condition.items)
        Gt(c) == CellGreater(c, v)
        Lt(c) == CellLess(c, v)
    IN  CASE kind = "equals" -> Outcome(d1, Mask(d1, Eq), NoError)
          [] kind = "contains" -> Outcome(d1, Mask(d1, Has), NoError)
          [] kind = "starts_with" -> Outcome(d1, Mask(d1, Starts), NoError)
          [] kind = "in" -> Outcome(d1, Mask(d1, In), NoError)
          [] kind = "greater_than" ->
                IF OrderingRaises(d1, v) THEN Outcome(d1, <<>>, "TypeError")
                ELSE Outcome(d1, Mask(d1, Gt), NoError)
          [] kind = "less_than" ->
                IF OrderingRaises(d1, v) THEN Outcome(d1, <<>>, "TypeError")
                ELSE Outcome(d1, Mask(d1, Lt), NoError)
          [] OTHER -> Outcome(d1, Mask(d1, AllTrue), NoError)

\* condition.condition.startswith('date_')
IsDateKind(kind) == kind \in {"date_equals", "date_greater", "date_less"}

\* apply_filter_condition(df, condition): the DataFrame as the call leaves it,
\* the boolean mask (one entry per row) and the exception raised, if any
apply_filter_condition(d, condition) ==
    IF IsDateKind(condition.condition)
    THEN ApplyDate(d, condition)
    ELSE ApplyPlain(d, condition)

----------------------------------------------------------------------------
(* filter.py: filter_excel_data *)

RECURSIVE SelectFrom(_, _, _)
SelectFrom(rows, mask, k) ==
    IF k > Len(rows) THEN <<>>
    ELSE (IF mask[k] THEN <<rows[k]>> ELSE <<>>) \o SelectFrom(rows, mask, k + 1)

\* df[mask]
Select(d, mask) == [dtype |-> d.dtype, rows |-> SelectFrom(d.rows, mask, 1)]

\* group_mask | condition_mask
MaskOr(m1, m2) == [k \in 1..Len(m1) |-> m1[k] \/ m2[k]]

\* pd.Series(False, index=df.index)   (filter.py line 111)
GroupMaskStartMutant(d) == [k \in 1..Len(d.rows) |-> TRUE]
GroupMaskStart(d) == [k \in 1..Len(d.rows) |-> FALSE]

ColumnFound(d, condition) == condition.column \in Columns

\* A bare FilterCondition (filter.py lines 103-108): the DataFrame after it,
\* or the exception
ApplySingle(d, condition) ==
    IF ~ColumnFound(d, condition) THEN [df |-> d, err |-> "KeyError"]
    ELSE LET r == apply_filter_condition(d, condition)
         IN  IF r.err # NoError THEN [df |-> r.df, err |-> r.err]
             ELSE [df |-> Select(r.df, r.mask), err |-> NoError]

\* The loop over the conditions of a FilterGroup (filter.py lines 112-116):
\* the DataFrame and the group mask after the last condition, or the exception
RECURSIVE GroupLoop(_, _, _)
GroupLoop(d, group_mask, conditions) ==
    IF conditions = <<>> THEN Outcome(d, group_mask, NoError)
    ELSE IF ~ColumnFound(d, Head(conditions)) THEN Outcome(d, group_mask, "KeyError")
    ELSE LET r == apply_filter_condition(d, Head(conditions))
         IN  IF r.err # NoError THEN Outcome(r.df, group_mask, r.err)
             ELSE GroupLoop(r.df, MaskOr(group_mask, r.mask), Tail(conditions))

\* A FilterGroup (filter.py lines 110-117)
ApplyGroupOf(d, group) ==
    LET r == GroupLoop(d, GroupMaskStart(d), group.conditions)
    IN  IF r.err # NoError THEN [df |-> r.df, err |-> r.err]
        ELSE [df |-> Select(r.df, r.mask), err |-> NoError]

\* One pass of the loop of filter_excel_data (filter.py lines 102-117)
ApplyElement(d, group) ==
    IF group.isgroup THEN ApplyGroupOf(d, group)
    ELSE ApplySingle(d, group.conditions[1])

\* The whole loop from a DataFrame: the result, or the first exception
RECURSIVE FilterLoop(_, _)
FilterLoop(d, groups) ==
    IF groups = <<>> THEN [df |-> d, err |-> NoError]
    ELSE LET r == ApplyElement(d, Head(groups))
         IN  IF r.err # NoError THEN r ELSE FilterLoop(r.df, Tail(groups))

\* pd.read_excel on a column of cells: integers give int64, integers and
\* blanks float64, anything with text object; no rows give object
ReadExcel(cells) ==
    LET tags == {cells[k].tag : k \in 1..Len(cells)}
        dtype == IF cells = <<>> THEN "object"
                 ELSE IF tags = {"int"} THEN "int64"
                 ELSE IF tags \subseteq {"int", "null"} THEN "float64"
                 ELSE "object"
    IN  [dtype |-> dtype,
         rows |-> [k \in 1..Len(cells) |->
                      [index |-> k,
                       cell |-> IF dtype = "float64" /\ cells[k].tag = "int"
                                THEN FloatCell(cells[k].n)
                                ELSE cells[k]]]]

(* Inputs *)

MaxRows == 2
\* The size of a filter expression: its conditions, an empty FilterGroup
\* counting for one
MaxSize == 2

SheetCells == {NullCell, IntCell(6), StrCell(<<"6">>)}

\* FilterCondition(column, value, condition, date_format); items is the value
\* when it is a list
FilterCondition(column, value, condition, items) ==
    [column |-> column, value |-> value, condition |-> condition,
     date_format |-> "%d", items |-> items]

Conditions ==
    { FilterCondition("A", IntCell(6), "equals", <<>>),
      FilterCondition("A", StrCell(<<"n", "a", "n">>), "contains", <<>>),
      FilterCondition("A", StrCell(<<"6">>), "starts_with", <<>>),
      FilterCondition("A", NullCell, "in", <<IntCell(6), StrCell(<<"x">>)>>),
      FilterCondition("A", IntCell(5), "greater_than", <<>>),
      FilterCondition("A", StrCell(<<"6">>), "date_equals", <<>>),
      FilterCondition("Z", IntCell(6), "equals", <<>>) }

Single(c) == [isgroup |-> FALSE, conditions |-> <<c>>]
FilterGroup(cs) == [isgroup |-> TRUE, conditions |-> cs]

\* A bare FilterCondition and a FilterGroup weigh their conditions, an empty
\* FilterGroup weighs 1
Weight(e) == IF e.conditions = <<>> THEN 1 ELSE Len(e.conditions)

\* The elements of a filter expression of weight at most n
Elements(n) ==
    IF n < 1 THEN {}
    ELSE {Single(c) : c \in Conditions}
         \cup {FilterGroup(cs) : cs \in SeqsUpTo(Conditions, n)}

\* The filter expressions of size at most n
RECURSIVE Expressions(_)
Expressions(n) ==
    {<<>>} \cup
    UNION {{<<e>> \o rest : rest \in Expressions(n - Weight(e))} : e \in Elements(n)}

InputFiles ==
    {[state |-> st, cells |-> <<>>] : st \in {"missing", "unreadable"}}
    \cup {[state |-> "ok", cells |-> cells] : cells \in SeqsUpTo(SheetCells, MaxRows)}

IdleFilter ==
    /\ input_file = [state |-> "missing", cells |-> <<>>]
    /\ filter_groups = <<>>
    /\ df = ReadExcel(<<>>) /\ pos = 0 /\ saved = {} /\ raised = NoError
    /\ fpc = "idle"

InitFilter ==
    /\ input_file \in InputFiles
    /\ filter_groups \in Expressions(MaxSize)
    /\ df = ReadExcel(<<>>)
    /\ pos = 0
    /\ saved = {}
    /\ raised = NoError
    /\ fpc = "start"

\* filter.py lines 95-99
LoadTable ==
    /\ fpc = "start"
    /\ IF input_file.state = "missing"
       THEN /\ raised' = "FileNotFoundError"
            /\ fpc' = "error"
            /\ UNCHANGED <<df, pos>>
       ELSE IF input_file.state = "unreadable"
       THEN /\ raised' = "ValueError"
            /\ fpc' = "error"
            /\ UNCHANGED <<df, pos>>
       ELSE /\ df' = ReadExcel(input_file.cells)
            /\ pos' = 1
            /\ fpc' = "filter"
            /\ UNCHANGED raised
    /\ UNCHANGED <<input_file, filter_groups, saved, mvars, dvars>>

Step(r) ==
    /\ df' = r.df
    /\ IF r.err # NoError
       THEN /\ raised' = r.err
            /\ fpc' = "error"
            /\ UNCHANGED pos
       ELSE /\ pos' = pos + 1
            /\ UNCHANGED <<raised, fpc>>
    /\ UNCHANGED <<input_file, filter_groups, saved, mvars, dvars>>

\* filter.py lines 103-108
ApplyCondition ==
    /\ fpc = "filter"
    /\ pos <= Len(filter_groups)
    /\ ~filter_groups[pos].isgroup
    /\ Step(ApplyElement(df, filter_groups[pos]))

\* filter.py lines 109-117
ApplyGroup ==
    /\ fpc = "filter"
    /\ pos <= Len(filter_groups)
    /\ filter_groups[pos].isgroup
    /\ Step(ApplyElement(df, filter_groups[pos]))

\* output_file: None or a path
OutputFiles == {"None", "filtered_data.xlsx"}

\* filter.py lines 119-129; output_file is read here only
SaveOutput ==
    /\ fpc = "filter"
    /\ pos > Len(filter_groups)
    /\ \E output_file \in OutputFiles :
          saved' = IF output_file # "None" THEN saved \cup {output_file} ELSE saved
    /\ fpc' = "done"
    /\ UNCHANGED <<input_file, filter_groups, df, pos, raised, mvars, dvars>>

NextFilter ==
    \/ LoadTable
    \/ ApplyCondition
    \/ ApplyGroup
    \/ SaveOutput

InitFilterOnly == InitFilter /\ IdleMatcher /\ IdleDedup

SpecFilter == InitFilterOnly /\ [][NextFilter]_vars

----------------------------------------------------------------------------
(* Properties of filter_excel_data *)

\* The table as read_excel loaded it
Loaded == ReadExcel(input_file.cells)

LoadedCell(i) == Loaded.rows[i].cell

\* The row labels of a DataFrame
Index(d) == {d.rows[k].index : k \in 1..Len(d.rows)}

\* The predicate of a condition on a loaded value, per comparison kind: a
\* missing value satisfies no condition, text comparisons read the value as
\* text, date comparisons read it as a date
HoldsOn(condition, c) ==
    LET v == condition.value
        kind == condition.condition
        date == ToDatetimeCell(c)
    IN  /\ c.tag # "null"
        /\ CASE kind = "equals" -> CellEq(c, v)
             [] kind = "contains" -> Contains(PyStr(c), PyStr(v))
             [] kind = "starts_with" -> StartsWith(PyStr(c), PyStr(v))
             [] kind = "in" -> CellIn(c, condition.items)
             [] kind = "greater_than" -> IsNumber(c) = IsNumber(v) /\ CellGreater(c, v)
             [] kind = "less_than" -> IsNumber(c) = IsNumber(v) /\ CellLess(c, v)
             [] kind = "date_equals" -> date.tag = "date" /\ date.n = Strptime(v.s)
             [] kind = "date_greater" -> date.tag = "date" /\ date.n > Strptime(v.s)
             [] kind = "date_less" -> date.tag = "date" /\ date.n < Strptime(v.s)

\* AND over the top-level elements, OR inside a FilterGroup
Satisfies(c, groups) ==
    \A k \in 1..Len(groups) :
        \E m \in 1..Len(groups[k].conditions) : HoldsOn(groups[k].conditions[m], c)

\* C1 (as claimed): filter_excel_data returns exactly the rows of the loaded
\* table that satisfy every top-level element (a FilterGroup by one of its
\* conditions), each predicate taken on the row's loaded value.
C1_ExactlySatisfyingRows ==
    fpc = "done" =>
        Index(df) = {i \in Index(Loaded) : Satisfies(LoadedCell(i), filter_groups)}

Bijections(n) == {p \in [1..n -> 1..n] : \A a, b \in 1..n : p[a] = p[b] => a = b}

Permuted(s, p) == [k \in 1..Len(s) |-> s[p[k]]]

\* The element with its conditions in any order
Reordered(group) ==
    {[isgroup |-> group.isgroup, conditions |-> Permuted(group.conditions, q)] :
        q \in Bijections(Len(group.conditions))}

\* The filter expressions that are groups in another order, with the
\* conditions of each FilterGroup in another order
Orders(groups) ==
    LET inner == {f \in [1..Len(groups) -> UNION {Reordered(groups[k]) : k \in 1..Len(groups)}] :
                     \A k \in 1..Len(groups) : f[k] \in Reordered(groups[k])}
    IN  {Permuted(f, p) : f \in inner, p \in Bijections(Len(groups))}

\* C2 (as claimed): the surviving rows do not depend on the order of the
\* elements of the filter expression nor on the order of the conditions of a
\* FilterGroup (compared on the orders that raise no exception).
C2_OrderIndependent ==
    fpc = "done" =>
        \A other \in Orders(filter_groups) :
            LET r == FilterLoop(Loaded, other)
            IN  r.err = NoError => Index(r.df) = Index(df)

IsBareContains(group) ==
    ~group.isgroup /\ group.conditions[1].condition = "contains"

\* C6 (as claimed): a row whose loaded value is null is never kept by a
\* contains condition, whatever the condition value.
C6_ContainsDropsNull ==
    (fpc = "done" /\ \E k \in 1..Len(filter_groups) : IsBareContains(filter_groups[k]))
        => \A i \in Index(df) : ~IsNa(LoadedCell(i))

IsEmptyGroup(group) == group.isgroup /\ group.conditions = <<>>

\* C7: filtering a non-empty table by an expression that holds an empty
\* FilterGroup, at any position and with any other elements, returns zero rows.
C7_EmptyGroupNoRows ==
    (/\ fpc = "done"
     /\ input_file.cells # <<>>
     /\ \E k \in 1..Len(filter_groups) : IsEmptyGroup(filter_groups[k]))
        => df.rows = <<>>

\* the empty group comes after a condition that kept a row
C7_Witness ==
    /\ fpc = "done"
    /\ Len(filter_groups) = 2
    /\ ~filter_groups[1].isgroup
    /\ IsEmptyGroup(filter_groups[2])
    /\ FilterLoop(Loaded, <<filter_groups[1]>>).df.rows # <<>>
    /\ df.rows = <<>>

----------------------------------------------------------------------------
(* remove_duplicates: files, loading, the matching pass, the outputs *)

MaxResponses == 2
MaxRegistry == 1
MaxSurveillance == 1

FileNames == {"responses", "registry", "surveillance"}

\* Facility names found in the primary table and in the two reference tables
ResponseNames == {NullCell, StrCell(<<"B", "a">>), StrCell(<<" ", "a">>)}
PoolNames == {NullCell, StrCell(<<"B", "a", "a">>), StrCell(<<"b", "a", " ">>)}

\* similarity_threshold: the default of remove_duplicates and an exact match
DedupThresholds == {75, 100}

\* A file on disk: state "missing" (no such path), "unreadable" (no read
\* succeeds), "default" (the first read succeeds), "first_sheet" (only the read
\* naming the first sheet succeeds); haskey tells whether the table has the
\* column COLUMN_KEY, names is that column.
FileOf(state, haskey, names) == [state |-> state, haskey |-> haskey, names |-> names]

FilesOnDisk(csv, nameSet, maxRows) ==
    {FileOf(st, FALSE, <<>>) :
        st \in (IF csv THEN {"missing", "unreadable", "default"}
                ELSE {"missing", "unreadable", "default", "first_sheet"})}
    \cup {FileOf(st, TRUE, ns) :
            st \in (IF csv THEN {"default"} ELSE {"default", "first_sheet"}),
            ns \in SeqsUpTo(nameSet, maxRows)}

IsCsv(name) == name = "responses"

\* read_file_safe: (df, sheet), df None when the file cannot be read
read_file_safe(csv, f) ==
    IF f.state = "missing" THEN [df |-> "None", sheet |-> "None"]
    ELSE IF csv
         THEN IF f.state = "default"
              THEN [df |-> "df", sheet |-> "None"]
              ELSE [df |-> "None", sheet |-> "None"]
         ELSE IF f.state = "default" THEN [df |-> "df", sheet |-> "default"]
         ELSE IF f.state = "first_sheet" THEN [df |-> "df", sheet |-> "sheet0"]
         ELSE [df |-> "None", sheet |-> "None"]

results == [name \in FileNames |-> read_file_safe(IsCsv(name), files[name])]

failed_files == {name \in FileNames : results[name].df = "None"}

missing_columns_Mutant == {}
missing_columns == {name \in FileNames : ~files[name].haskey}

\* df_responses.iterrows(): the rows of the primary table with their index
Row(k) == [index |-> k, name |-> files["responses"].names[k]]

all_names_to_check_Mutant == files["registry"].names
all_names_to_check == files["registry"].names \o files["surveillance"].names

\* Series.isin(values): NaN is in a list that holds NaN
IsIn(c, values) == \E k \in 1..Len(values) : values[k] = c

RECURSIVE SelectRows(_, _, _)
SelectRows(names, k, removed) ==
    IF k > Len(names) THEN <<>>
    ELSE (IF IsIn(names[k], removed) THEN <<>> ELSE <<[index |-> k, name |-> names[k]]>>)
         \o SelectRows(names, k + 1, removed)

\* df_responses[~df_responses[COLUMN_KEY].isin(removed_names)]
FilterResponsesOf(names, removed) == SelectRows(names, 1, removed)

\* The position after a match: break leaves the inner loop, the outer loop
\* takes the next row
BreakToMutant(i, j) == <<i, j + 1>>
BreakTo(i, j) == <<i + 1, 1>>

InitDedup ==
    /\ \E r \in FilesOnDisk(TRUE, ResponseNames, MaxResponses),
          g \in FilesOnDisk(FALSE, PoolNames, MaxRegistry),
          s \in FilesOnDisk(FALSE, PoolNames, MaxSurveillance) :
            files = [name \in FileNames |->
                        CASE name = "responses" -> r
                          [] name = "registry" -> g
                          [] OTHER -> s]
    /\ similarity_threshold \in DedupThresholds
    /\ idx = 0 /\ chk = 0
    /\ removed_names = <<>> /\ matches_found = <<>> /\ removed_rows = <<>>
    /\ df_responses_filtered = <<>>
    /\ written = {}
    /\ dpc = "start"
    /\ IdleMatcher
    /\ IdleFilter

\* main.py 91-101: read the three files, stop when one cannot be read
ReadFiles ==
    /\ dpc = "start"
    /\ dpc' = IF failed_files # {} THEN "error" ELSE "loaded"
    /\ UNCHANGED <<files, similarity_threshold, idx, chk, removed_names,
                   matches_found, removed_rows, df_responses_filtered, written, mvars, fvars>>

\* main.py 108-128: the key column must be in all three tables
VerifyColumns ==
    /\ dpc = "loaded"
    /\ IF missing_columns # {}
       THEN /\ dpc' = "error"
            /\ UNCHANGED <<idx, chk>>
       ELSE /\ dpc' = "loop"
            /\ idx' = 1
            /\ chk' = 1
    /\ UNCHANGED <<files, similarity_threshold, removed_names, matches_found,
                   removed_rows, df_responses_filtered, written, mvars, fvars>>

\* main.py 133-138: one comparison of the inner loop
CheckName ==
    /\ dpc = "loop"
    /\ idx <= Len(files["responses"].names)
    /\ chk <= Len(all_names_to_check)
    /\ LET response_name == Row(idx).name
           check_name == all_names_to_check[chk]
       IN  IF is_similar_name(response_name, check_name, similarity_threshold)
           THEN /\ removed_names' = Append(removed_names, response_name)
                /\ matches_found' = Append(matches_found, check_name)
                /\ removed_rows' = Append(removed_rows, Row(idx))
                /\ idx' = BreakTo(idx, chk)[1]
                /\ chk' = BreakTo(idx, chk)[2]
           ELSE /\ chk' = chk + 1
                /\ UNCHANGED <<idx, removed_names, matches_found, removed_rows>>
    /\ UNCHANGED <<files, similarity_threshold, df_responses_filtered, written,
                   dpc, mvars, fvars>>

\* main.py 131-133: the inner loop ran out of names, the next row is taken
NextRow ==
    /\ dpc = "loop"
    /\ idx <= Len(files["responses"].names)
    /\ chk > Len(all_names_to_check)
    /\ idx' = idx + 1
    /\ chk' = 1
    /\ UNCHANGED <<files, similarity_threshold, removed_names, matches_found,
                   removed_rows, df_responses_filtered, written, dpc, mvars, fvars>>

\* main.py 141-149: the removed report, written when a row was removed, and
\* the filtered table
SaveRemoved ==
    /\ dpc = "loop"
    /\ idx > Len(files["responses"].names)
    /\ written' = IF removed_rows # <<>>
                  THEN written \cup {"removed_facilities.xlsx"}
                  ELSE written
    /\ df_responses_filtered' =
           FilterResponsesOf(files["responses"].names, removed_names)
    /\ dpc' = "backup"
    /\ UNCHANGED <<files, similarity_threshold, idx, chk, removed_names,
                   matches_found, removed_rows, mvars, fvars>>

\* main.py 158-159
WriteBackup ==
    /\ dpc = "backup"
    /\ written' = written \cup {"responses_backup.csv"}
    /\ dpc' = "save"
    /\ UNCHANGED <<files, similarity_threshold, idx, chk, removed_names,
                   matches_found, removed_rows, df_responses_filtered, mvars, fvars>>

\* main.py 163-169
WriteFiltered ==
    /\ dpc = "save"
    /\ written' = written \cup {"responses_filtered.xlsx"}
    /\ dpc' = "done"
    /\ UNCHANGED <<files, similarity_threshold, idx, chk, removed_names,
                   matches_found, removed_rows, df_responses_filtered, mvars, fvars>>

NextDedup ==
    \/ ReadFiles
    \/ VerifyColumns
    \/ CheckName
    \/ NextRow
    \/ SaveRemoved
    \/ WriteBackup
    \/ WriteFiltered

SpecDedup == InitDedup /\ [][NextDedup]_vars

\* The names of the registry followed by those of the surveillance table
Pool == files["registry"].names \o files["surveillance"].names

\* A pool name matches the name c at the threshold of the run
MatchesPool(c) ==
    \E k \in 1..Len(Pool) : is_similar_name(c, Pool[k], similarity_threshold)

\* The position in the pool of the first name that matches c
FirstMatch(c) ==
    CHOOSE k \in 1..Len(Pool) :
        /\ is_similar_name(c, Pool[k], similarity_threshold)
        /\ \A m \in 1..(k - 1) : ~is_similar_name(c, Pool[m], similarity_threshold)

Indexes(rows) == {rows[k].index : k \in 1..Len(rows)}

\* C4: after remove_duplicates finishes, a primary row is in the removed set
\* iff some pool name matches its name, in the kept table iff none does, so in
\* exactly one of the two, and removed count + kept count = primary rows.
C4_Partition ==
    dpc = "done" =>
        /\ \A k \in 1..Len(files["responses"].names) :
              LET c == files["responses"].names[k]
              IN  /\ (k \in Indexes(removed_rows)) <=> MatchesPool(c)
                  /\ (k \in Indexes(df_responses_filtered)) <=> ~MatchesPool(c)
        /\ Len(removed_names) + Len(df_responses_filtered)
               = Len(files["responses"].names)
        /\ Cardinality(Indexes(removed_rows)) = Len(removed_rows)
        /\ Cardinality(Indexes(df_responses_filtered)) = Len(df_responses_filtered)

\* a run that removed a row for a surveillance name only and kept another
C4_Witness ==
    /\ dpc = "done"
    /\ Len(removed_rows) = 1
    /\ Len(df_responses_filtered) = 1
    /\ ~(\E k \in 1..Len(files["registry"].names) :
            is_similar_name(removed_names[1], files["registry"].names[k],
                            similarity_threshold))

\* C10: each removed row has exactly one entry in the report, its 'Matched
\* With' is the first pool name (registry, then surveillance) that matches it,
\* no name after the first match is examined for the row, and the three lists
\* have equal length at every point of the run.
C10_FirstMatchOnly ==
    dpc \in {"loop", "backup", "save", "done"} =>
        /\ Len(removed_names) = Len(matches_found)
        /\ Len(matches_found) = Len(removed_rows)
        /\ Cardinality(Indexes(removed_rows)) = Len(removed_rows)
        /\ \A k \in 1..Len(removed_rows) :
              /\ removed_rows[k].index < idx
              /\ removed_names[k] = removed_rows[k].name
              /\ removed_rows[k].name = files["responses"].names[removed_rows[k].index]
              /\ MatchesPool(removed_names[k])
              /\ matches_found[k] = Pool[FirstMatch(removed_names[k])]
        /\ (dpc = "loop" /\ idx <= Len(files["responses"].names)) =>
              \A m \in 1..(chk - 1) :
                  m <= Len(Pool) =>
                      ~is_similar_name(files["responses"].names[idx], Pool[m],
                                       similarity_threshold)

\* a removed row that two pool names match, the second of them recorded
\* nowhere
C10_Witness ==
    /\ dpc = "done"
    /\ Len(removed_rows) = 2
    /\ Len(Pool) = 2
    /\ \E k \in 1..Len(removed_rows) :
          /\ is_similar_name(removed_names[k], Pool[1], similarity_threshold)
          /\ is_similar_name(removed_names[k], Pool[2], similarity_threshold)
          /\ Pool[1] # Pool[2]
          /\ matches_found[k] = Pool[1]

----------------------------------------------------------------------------
(* Either pipeline *)

InitPipelines ==
    \/ InitFilterOnly
    \/ InitDedup

NextPipelines == NextFilter \/ NextDedup

SpecPipelines == InitPipelines /\ [][NextPipelines]_vars

\* An input of remove_duplicates cannot be loaded or lacks the key column
BadInput ==
    \E name \in FileNames :
        files[name].state \in {"missing", "unreadable"} \/ ~files[name].haskey

\* C5: a run that ends in an error has written no output file:
\* filter_excel_data writes its output only after every element of the filter
\* expression was evaluated without an exception; remove_duplicates writes
\* none of its three files when an input fails to load or lacks the key column.
C5_NoOutputOnError ==
    /\ fpc = "error" => saved = {}
    /\ saved # {} =>
          fpc = "done" /\ pos = Len(filter_groups) + 1 /\ raised = NoError
    /\ dpc = "error" => written = {}
    /\ (dpc # "idle" /\ BadInput) => written = {}

\* the second element raised on a row that the first had kept
C5_Witness ==
    /\ fpc = "error"
    /\ raised \in {"KeyError", "TypeError"}
    /\ pos = 2
    /\ df.rows # <<>>
    /\ saved = {}

----------------------------------------------------------------------------
(* is_similar_name called on two names and a threshold *)

InitMatcher ==
    /\ name1 \in Names
    /\ name2 \in Names
    /\ threshold \in Thresholds
    /\ result = FALSE
    /\ mpc = "call"
    /\ IdleDedup
    /\ IdleFilter

IsSimilarName ==
    /\ mpc = "call"
    /\ result' = is_similar_name(name1, name2, threshold)
    /\ mpc' = "done"
    /\ UNCHANGED <<name1, name2, threshold, dvars, fvars>>

NextMatcher == IsSimilarName

SpecMatcher == InitMatcher /\ [][NextMatcher]_vars

\* The normalized token set of a non-null name (lowercased, stripped, split
\* on whitespace, duplicates collapsed)
Tokens(c) == Parts(Strip(Lower(c.s)))

SizeDiff(a, b) == Abs(Cardinality(Tokens(a)) - Cardinality(Tokens(b)))

\* "the best score of part p against the set Q is at least t", the best score
\* being the maximum similarity over Q and 0 when Q is empty
BestAtLeast(p, Q, t) ==
    \/ Q = {} /\ 0 >= t
    \/ \E q \in Q : Ratio(p, q) >= t

\* C3 (as claimed): is_similar_name(a, b, t) = is_similar_name(b, a, t) for all
\* names a, b and thresholds t.
C3_Symmetric ==
    mpc = "done" => result = is_similar_name(name2, name1, threshold)

\* C8: names whose normalized token sets differ in size by more than 1 never
\* match, whatever the threshold.
C8_SizeGuard ==
    (mpc = "done" /\ ~IsNa(name1) /\ ~IsNa(name2) /\ SizeDiff(name1, name2) > 1)
        => result = FALSE

C8_Witness ==
    /\ mpc = "done" /\ ~IsNa(name1) /\ ~IsNa(name2)
    /\ SizeDiff(name1, name2) > 1
    /\ threshold = 0
    /\ result = FALSE

\* C9 (as claimed): for non-null names whose token sets differ in size by at
\* most 1, the result is "match" exactly when every best score collected for a
\* token of the first name is at least the threshold, also when nothing is
\* collected.
C9_EveryBestScore ==
    (mpc = "done" /\ ~IsNa(name1) /\ ~IsNa(name2) /\ SizeDiff(name1, name2) <= 1)
        => (result <=> \A p \in Tokens(name1) : BestAtLeast(p, Tokens(name2), threshold))

\* C9 (amended): ... exactly when at least one best score was collected (the
\* first name has a token) and every collected best score is at least the
\* threshold.
C9_NonEmptyEveryBestScore ==
    (mpc = "done" /\ ~IsNa(name1) /\ ~IsNa(name2) /\ SizeDiff(name1, name2) <= 1)
        => (result <=> /\ Tokens(name1) # {}
                       /\ \A p \in Tokens(name1) :
                              BestAtLeast(p, Tokens(name2), threshold))

C9_Witness ==
    /\ mpc = "done" /\ ~IsNa(name1) /\ ~IsNa(name2)
    /\ Cardinality(Tokens(name1)) = 2 /\ Cardinality(Tokens(name2)) = 1
    /\ threshold = 50
    /\ result = TRUE

====
